---- MODULE Spec2Model ----
(***************************************************************************)
(* Model of the fetch orchestrator of markter.py: the sqlite cache         *)
(* (_cache_get, _cache_set, _cache_clear), the process-wide limiter        *)
(* (_limiter_allow), the upstream client (_serpapi_call_sold) and          *)
(* fetch_ebay_sold, run by concurrent request threads.                     *)
(*                                                                         *)
(* Time is a global clock `now`, counted in ticks (TicksPerSec ticks per   *)
(* second), so that time.time() has sub-second resolution while            *)
(* int(time.time()) truncates to whole seconds.  The local calendar day is *)
(* the whole number of days since the epoch (local time = UTC).            *)
(***************************************************************************)
EXTENDS Integers, Sequences, FiniteSets, TLC

\* ----------------------------------------------------------------- bounds
TicksPerSec == 2
\* fine clock steps stay within this many ticks of a multiple of the fresh TTL
MaxOffset == 4
\* the clock stops this many fresh TTLs after the first midnight (plus MaxOffset)
MaxGrid == 1
\* the saturating-load scenario runs this many seconds into the day after its first
QuotaTailSec == 4
\* the retry scenario leaves room for this many exhausted retry loops
RetryLoops == 2

\* ------------------------------------------------------ program constants
TTL_SECONDS_DEFAULT == 6 * 60 * 60
TTL_SECONDS_FALLBACK == 24 * 60 * 60
MIN_SECONDS_BETWEEN_CALLS == 2
MAX_CALLS_PER_DAY == 200
\* max(1, min(int(limit), 200))
LIMIT_MIN == 1
LIMIT_MAX == 200
\* backoffs = [2, 4, 8]
backoffs == <<2, 4, 8>>
\* one local calendar day of _today_key_local, in seconds
SECONDS_PER_DAY == 24 * 60 * 60

\* ------------------------------------------------------------ time helpers
Sec(n) == n * TicksPerSec
\* int(time.time()) at clock value t
IntTime(t) == t \div TicksPerSec
\* _today_key_local at clock value t: the calendar day as a day number
TodayKey(t) == IntTime(t) \div SECONDS_PER_DAY
Max(a, b) == IF a >= b THEN a ELSE b
Min(a, b) == IF a <= b THEN a ELSE b

\* ------------------------------------------------------------ input sets
Threads == {"t1", "t2"}
NoThread == "none"
\* queries are strings, modelled as sequences of characters
Queries == {<<"l", "a", "m", "p">>}
\* the limits callers ask for (clamped to [LIMIT_MIN, LIMIT_MAX] by fetch)
RequestedLimits == {0, 1, 2}
\* what one HTTP GET to the upstream can end in
Outcomes == {"ok", "error_payload", "client_error", "server_error", "timeout"}
\* raw upstream items: the currency tagging of one organic result
\*   "eur_a", "eur_b": price with currency field EUR
\*   "usd": price with currency field USD, "no_price": no extracted price
RawResponses == {<<"eur_a", "usd", "eur_b">>, <<"no_price", "eur_b">>}

VARIABLES
  now,            \* the clock, in ticks
  has_key,        \* SERPAPI_KEY is a non-empty string
  last_call_ts,   \* _last_call_ts, in ticks
  day_key,        \* _day_key: a day number, -1 for None
  day_calls,      \* _day_calls
  limiter_lock,   \* holder of _limiter_lock
  db_lock,        \* holder of _db_lock
  cache,          \* the cache table: key -> row
  pc,             \* where each request thread is
  loc,            \* the locals of each thread's fetch_ebay_sold call
  result,         \* what each thread's fetch returned or raised
  last_grant,     \* observer: the last Allowed decision: its clock value, its calendar
                  \* day, and how many decisions were Allowed on that day so far
  last_ask,       \* observer: the last _limiter_allow call: its clock value and its
                  \* decision
  http_day,       \* observer: the calendar day http_count counts
  http_count      \* observer: HTTP requests sent to the upstream on http_day

vars == <<now, has_key, last_call_ts, day_key, day_calls, limiter_lock, db_lock,
          cache, pc, loc, result, last_grant, last_ask, http_day, http_count>>


\* ------------------------------------------------------------ data shapes
NoRow == [present |-> FALSE, ts |-> 0, valid |-> FALSE, items |-> <<>>]
NoCached == [found |-> FALSE, ts |-> 0, age |-> 0, items |-> <<>>]
NoDbg == [reason |-> "", retry_after_seconds |-> 0, day_calls |-> 0, day_cap |-> 0]
NoGrant == [at |-> 0, day |-> -1, n |-> 0]
NoAsk == [any |-> FALSE, at |-> 0, allowed |-> FALSE]
NoDetail == [reason |-> "", attempt |-> 0, status_code |-> 0]
NoResult == [kind |-> "none", exc |-> "", status_code |-> 0, reason |-> "",
             items |-> <<>>, cache |-> "", stale |-> "absent", ttl_seconds |-> 0,
             limiter_detail |-> NoDbg, upstream_detail |-> NoDetail]
InitLoc == [query |-> <<>>, requested |-> 0, limit |-> 0, row |-> NoRow,
            cached |-> NoCached, asked |-> FALSE, asked_at |-> 0, allowed |-> FALSE,
            lim_dbg |-> NoDbg, attempt |-> 0, wake |-> 0, status_code |-> 0,
            comps |-> <<>>, ts |-> 0, sent |-> 0]

\* ------------------------------------------------------------- cache key
DigitChars == <<"0", "1", "2", "3", "4", "5", "6", "7", "8", "9">>
RECURSIVE Digits(_)
\* str(n) for n >= 0, as a sequence of characters
Digits(n) ==
  IF n < 10 THEN <<DigitChars[n + 1]>>
  ELSE Digits(n \div 10) \o <<DigitChars[(n % 10) + 1]>>

\* limit = max(1, min(int(limit), 200))
ClampLimit(l) == Max(LIMIT_MIN, Min(l, LIMIT_MAX))

\* a key that leaves the limit out
CacheKeyNoLimit(query, limit) == query \o <<"\n">>

\* _cache_key: the SHA-256 digest of f"{query}\n{limit}".  The digest is taken to be
\* collision free, so the key is the hashed string itself.
CacheKey(query, limit) == query \o <<"\n">> \o Digits(limit)

\* the queries and limits of the requests that are told apart by their keys: a
\* query that ends like a key, limits below, inside and above [LIMIT_MIN, LIMIT_MAX]
KeyQueries == Queries \cup {<<"l", "a", "m", "p", "\n", "1">>}
KeyLimits == RequestedLimits \cup {LIMIT_MAX, LIMIT_MAX + 1}

Keys == {CacheKey(q, ClampLimit(l)) : q \in KeyQueries, l \in KeyLimits}

\* ------------------------------------------------------- upstream results
\* is_eur and the extracted-price test of _serpapi_call_sold, per raw item
Retained(item) == item \in {"eur_a", "eur_b"}
\* a result list that is not cut
NormaliseUncut(raw, limit) == SelectSeq(raw, Retained)

\* comps[:limit]: the retained items in upstream order, cut to limit
Normalise(raw, limit) ==
  LET comps == SelectSeq(raw, Retained)
  IN SubSeq(comps, 1, Min(limit, Len(comps)))

StatusOf(outcome) ==
  CASE outcome = "ok" -> 200
    [] outcome = "error_payload" -> 200
    [] outcome = "client_error" -> 404
    [] outcome = "server_error" -> 500
    [] OTHER -> 0

\* --------------------------------------------------------------- limiter
\* a cap test that lets one more call through
CapReachedOffByOne(calls) == calls > MAX_CALLS_PER_DAY
\* if _day_calls >= MAX_CALLS_PER_DAY
CapReached(calls) == calls >= MAX_CALLS_PER_DAY

\* a wait that is over one tick early
WaitNeededShort(t, last) == Max(0, Sec(MIN_SECONDS_BETWEEN_CALLS) - 1 - (t - last))

\* wait_needed = max(0.0, MIN_SECONDS_BETWEEN_CALLS - (now - _last_call_ts)), in ticks
WaitNeeded(t, last) == Max(0, Sec(MIN_SECONDS_BETWEEN_CALLS) - (t - last))

\* int(wait_needed) + 1, for wait_needed given in ticks
RetryAfter(wait_needed) == (wait_needed \div TicksPerSec) + 1

\* an allowed call that leaves _last_call_ts as it was
CommitLastForgotten(t, last) == last
\* _last_call_ts = now
CommitLast(t, last) == t

\* a limiter that also counts the calls it denies for min_interval
LimiterBodyCountsDenied(t, st) ==
  LET tk == TodayKey(t)
      reset == st.key # tk
      last0 == IF reset THEN 0 ELSE st.last
      calls0 == IF reset THEN 0 ELSE st.calls
      wait_needed == WaitNeeded(t, last0)
  IN IF CapReached(calls0)
     THEN [allowed |-> FALSE,
           dbg |-> [reason |-> "daily_cap", retry_after_seconds |-> 0,
                    day_calls |-> calls0, day_cap |-> MAX_CALLS_PER_DAY],
           st |-> [last |-> last0, key |-> tk, calls |-> calls0]]
     ELSE IF wait_needed > 0
     THEN [allowed |-> FALSE,
           dbg |-> [reason |-> "min_interval",
                    retry_after_seconds |-> RetryAfter(wait_needed),
                    day_calls |-> 0, day_cap |-> 0],
           st |-> [last |-> last0, key |-> tk, calls |-> calls0 + 1]]
     ELSE [allowed |-> TRUE,
           dbg |-> [reason |-> "", retry_after_seconds |-> 0,
                    day_calls |-> calls0 + 1, day_cap |-> MAX_CALLS_PER_DAY],
           st |-> [last |-> CommitLast(t, last0), key |-> tk, calls |-> calls0 + 1]]

\* The body of _limiter_allow run at clock value t on limiter state
\* st = [last, key, calls]: the decision, its detail and the state it leaves.
LimiterBody(t, st) ==
  LET tk == TodayKey(t)
      reset == st.key # tk
      last0 == IF reset THEN 0 ELSE st.last
      calls0 == IF reset THEN 0 ELSE st.calls
      wait_needed == WaitNeeded(t, last0)
  IN IF CapReached(calls0)
     THEN [allowed |-> FALSE,
           dbg |-> [reason |-> "daily_cap", retry_after_seconds |-> 0,
                    day_calls |-> calls0, day_cap |-> MAX_CALLS_PER_DAY],
           st |-> [last |-> last0, key |-> tk, calls |-> calls0]]
     ELSE IF wait_needed > 0
     THEN [allowed |-> FALSE,
           dbg |-> [reason |-> "min_interval",
                    retry_after_seconds |-> RetryAfter(wait_needed),
                    day_calls |-> 0, day_cap |-> 0],
           st |-> [last |-> last0, key |-> tk, calls |-> calls0]]
     ELSE [allowed |-> TRUE,
           dbg |-> [reason |-> "", retry_after_seconds |-> 0,
                    day_calls |-> calls0 + 1, day_cap |-> MAX_CALLS_PER_DAY],
           st |-> [last |-> CommitLast(t, last0), key |-> tk, calls |-> calls0 + 1]]

\* ------------------------------------------------------------------ Init
Day == Sec(SECONDS_PER_DAY)
\* the sqlite file outlives the process: the table may hold a row of an earlier run
\* that is no longer fresh, or a row whose payload no longer parses
StaleDiskRow(t) ==
  [present |-> TRUE, ts |-> IntTime(t) - TTL_SECONDS_DEFAULT - 1, valid |-> TRUE,
   items |-> <<"eur_a">>]
CorruptDiskRow(t) ==
  [present |-> TRUE, ts |-> IntTime(t), valid |-> FALSE, items |-> <<>>]
DiskRows(t) == {NoRow, StaleDiskRow(t), CorruptDiskRow(t)}

FirstKey == CacheKey(CHOOSE q \in Queries : TRUE, LIMIT_MIN)

\* the module level state once the module is loaded at clock value t0, with or
\* without SERPAPI_KEY, over a cache file holding row under FirstKey
Boot(t0, key, row) ==
  /\ now = t0
  /\ has_key = key
  /\ last_call_ts = 0
  /\ day_key = -1
  /\ day_calls = 0
  /\ limiter_lock = NoThread
  /\ db_lock = NoThread
  /\ cache = [k \in Keys |-> IF k = FirstKey THEN row ELSE NoRow]
  /\ pc = [t \in Threads |-> "idle"]
  /\ loc = [t \in Threads |-> InitLoc]
  /\ result = [t \in Threads |-> NoResult]
  /\ last_grant = NoGrant
  /\ last_ask = NoAsk
  /\ http_day = -1
  /\ http_count = 0

\* two request threads, the credential configured, started at midnight
Init == \E row \in {NoRow, StaleDiskRow(Day)} : Boot(Day, TRUE, row)

\* started at midnight, with any credential and cache file
InitSeq == \E key \in BOOLEAN, row \in DiskRows(Day) : Boot(Day, key, row)

\* ----------------------------------------------------------------- clock
Grid == Sec(TTL_SECONDS_DEFAULT)
\* t lies within MaxOffset of a multiple of the fresh TTL
NearGrid(t) ==
  \/ t % Grid <= MaxOffset
  \/ t % Grid >= Grid - MaxOffset
\* where the clock stops: with and without waits of a fresh TTL
ShortClock == Day + MaxOffset
LongClock == Day + MaxGrid * Grid + MaxOffset

\* time passes: by one tick, one second or the limiter interval
ShortSteps == {1, Sec(1), Sec(MIN_SECONDS_BETWEEN_CALLS)}

\* time passes by d, up to the clock value limit
Tick(d, limit) ==
  /\ now + d <= limit
  /\ NearGrid(now + d)
  /\ now' = now + d
  /\ UNCHANGED <<has_key, last_call_ts, day_key, day_calls, limiter_lock, db_lock,
                 cache, pc, loc, result, last_grant,
                 last_ask, http_day, http_count>>

\* ------------------------------------------------------- fetch_ebay_sold
\* fetch_ebay_sold is called with (q, l): the credential check and the clamp
Start(t, q, l) ==
  /\ pc[t] = "idle"
  /\ IF ~has_key
     THEN /\ result' = [result EXCEPT ![t] =
                 [NoResult EXCEPT !.kind = "raise", !.exc = "HTTPException",
                                  !.status_code = 400, !.reason = "missing_serpapi_key"]]
          /\ pc' = [pc EXCEPT ![t] = "done"]
          /\ loc' = [loc EXCEPT ![t] = [InitLoc EXCEPT !.query = q, !.requested = l]]
     ELSE /\ loc' = [loc EXCEPT ![t] = [InitLoc EXCEPT !.query = q, !.requested = l,
                                                     !.limit = ClampLimit(l)]]
          /\ pc' = [pc EXCEPT ![t] = "cache_get"]
          /\ UNCHANGED result
  /\ UNCHANGED <<now, has_key, last_call_ts, day_key, day_calls, limiter_lock, db_lock,
                 cache, last_grant,
                 last_ask, http_day, http_count>>

KeyOf(t) == CacheKey(loc[t].query, loc[t].limit)

\* _cache_get: with _db_lock
CacheGetLock(t) ==
  /\ pc[t] = "cache_get"
  /\ db_lock = NoThread
  /\ db_lock' = t
  /\ pc' = [pc EXCEPT ![t] = "cache_select"]
  /\ UNCHANGED <<now, has_key, last_call_ts, day_key, day_calls, limiter_lock,
                 cache, loc, result, last_grant,
                 last_ask, http_day, http_count>>

\* a SELECT that also stamps the row it reads with the time of the read
CacheGetSelectTouch(t) ==
  /\ pc[t] = "cache_select"
  /\ db_lock = t
  /\ loc' = [loc EXCEPT ![t].row = cache[KeyOf(t)]]
  /\ cache' = [cache EXCEPT ![KeyOf(t)] =
                 IF @.present THEN [@ EXCEPT !.ts = IntTime(now)] ELSE @]
  /\ db_lock' = NoThread
  /\ pc' = [pc EXCEPT ![t] = "cache_parse"]
  /\ UNCHANGED <<now, has_key, last_call_ts, day_key, day_calls, limiter_lock,
                 result, last_grant,
                 last_ask, http_day, http_count>>

\* _cache_get: the SELECT, and the release of _db_lock
CacheGetSelect(t) ==
  /\ pc[t] = "cache_select"
  /\ db_lock = t
  /\ loc' = [loc EXCEPT ![t].row = cache[KeyOf(t)]]
  /\ db_lock' = NoThread
  /\ pc' = [pc EXCEPT ![t] = "cache_parse"]
  /\ UNCHANGED <<now, has_key, last_call_ts, day_key, day_calls, limiter_lock,
                 cache, result, last_grant,
                 last_ask, http_day, http_count>>

\* _cache_get after the SELECT: no row or an unparseable payload is None, else the
\* entry with its age at clock value t
CacheGetResult(row, t) ==
  IF ~row.present \/ ~row.valid THEN NoCached
  ELSE [found |-> TRUE, ts |-> row.ts, age |-> IntTime(t) - row.ts, items |-> row.items]

\* a fresh test against the fallback TTL
IsFreshLoose(cached) == cached.found /\ cached.age <= TTL_SECONDS_FALLBACK
\* if cached and cached["age"] <= TTL_SECONDS_DEFAULT
IsFresh(cached) == cached.found /\ cached.age <= TTL_SECONDS_DEFAULT

HitResult(cached) ==
  [NoResult EXCEPT !.kind = "return", !.items = cached.items, !.cache = "HIT",
                   !.stale = "false", !.ttl_seconds = TTL_SECONDS_DEFAULT]

\* the rest of _cache_get, and the fresh test of fetch_ebay_sold
CacheGetParse(t) ==
  /\ pc[t] = "cache_parse"
  /\ LET cached == CacheGetResult(loc[t].row, now)
     IN /\ loc' = [loc EXCEPT ![t].cached = cached, ![t].row = NoRow]
        /\ IF IsFresh(cached)
           THEN /\ result' = [result EXCEPT ![t] = HitResult(cached)]
                /\ pc' = [pc EXCEPT ![t] = "done"]
           ELSE /\ pc' = [pc EXCEPT ![t] = "limiter"]
                /\ UNCHANGED result
  /\ UNCHANGED <<now, has_key, last_call_ts, day_key, day_calls, limiter_lock, db_lock,
                 cache, last_grant,
                 last_ask, http_day, http_count>>

\* the limiter state as _limiter_allow sees it
LimiterState == [last |-> last_call_ts, key |-> day_key, calls |-> day_calls]

\* the observer's record of an Allowed decision
Granted ==
  [at |-> now, day |-> TodayKey(now),
   n |-> IF last_grant.day = TodayKey(now) THEN last_grant.n + 1 ELSE 1]

\* not allowed, cached: the stale entry with refresh_skipped
SkippedResult(cached, lim_dbg) ==
  [NoResult EXCEPT !.kind = "return", !.items = cached.items, !.cache = "HIT",
                   !.stale = "true", !.ttl_seconds = TTL_SECONDS_DEFAULT,
                   !.limiter_detail = lim_dbg]

\* not allowed, nothing cached: HTTPException(429)
RateLimited(lim_dbg) ==
  [NoResult EXCEPT !.kind = "raise", !.exc = "HTTPException", !.status_code = 429,
                   !.reason = "local_rate_limited", !.limiter_detail = lim_dbg]

\* _limiter_allow: with _limiter_lock
LimiterLock(t) ==
  /\ pc[t] = "limiter"
  /\ limiter_lock = NoThread
  /\ limiter_lock' = t
  /\ pc' = [pc EXCEPT ![t] = "limiter_body"]
  /\ UNCHANGED <<now, has_key, last_call_ts, day_key, day_calls, db_lock,
                 cache, loc, result, last_grant,
                 last_ask, http_day, http_count>>

\* an Allowed call that keeps _limiter_lock over the upstream call
LimiterAllowHolding(t) ==
  /\ pc[t] = "limiter_body"
  /\ limiter_lock = t
  /\ LET d == LimiterBody(now, LimiterState)
     IN /\ last_call_ts' = d.st.last
        /\ day_key' = d.st.key
        /\ day_calls' = d.st.calls
        /\ limiter_lock' = IF d.allowed THEN t ELSE NoThread
        /\ last_grant' = IF d.allowed THEN Granted ELSE last_grant
        /\ last_ask' = [any |-> TRUE, at |-> now, allowed |-> d.allowed]
        /\ loc' = [loc EXCEPT ![t].asked = TRUE, ![t].allowed = d.allowed, ![t].asked_at = now,
                              ![t].lim_dbg = d.dbg,
                              ![t].attempt = IF d.allowed THEN 1 ELSE 0]
        /\ IF d.allowed
           THEN /\ pc' = [pc EXCEPT ![t] = "request"]
                /\ UNCHANGED result
           ELSE /\ pc' = [pc EXCEPT ![t] = "done"]
                /\ result' = [result EXCEPT ![t] =
                       IF loc[t].cached.found
                       THEN SkippedResult(loc[t].cached, d.dbg)
                       ELSE RateLimited(d.dbg)]
  /\ UNCHANGED <<now, has_key, db_lock, cache, http_day, http_count>>

\* the body of _limiter_allow, the release of _limiter_lock, and what
\* fetch_ebay_sold does with the decision
LimiterAllow(t) ==
  /\ pc[t] = "limiter_body"
  /\ limiter_lock = t
  /\ LET d == LimiterBody(now, LimiterState)
     IN /\ last_call_ts' = d.st.last
        /\ day_key' = d.st.key
        /\ day_calls' = d.st.calls
        /\ limiter_lock' = NoThread
        /\ last_grant' = IF d.allowed THEN Granted ELSE last_grant
        /\ last_ask' = [any |-> TRUE, at |-> now, allowed |-> d.allowed]
        /\ loc' = [loc EXCEPT ![t].asked = TRUE, ![t].allowed = d.allowed, ![t].asked_at = now,
                              ![t].lim_dbg = d.dbg,
                              ![t].attempt = IF d.allowed THEN 1 ELSE 0]
        /\ IF d.allowed
           THEN /\ pc' = [pc EXCEPT ![t] = "request"]
                /\ UNCHANGED result
           ELSE /\ pc' = [pc EXCEPT ![t] = "done"]
                /\ result' = [result EXCEPT ![t] =
                       IF loc[t].cached.found
                       THEN SkippedResult(loc[t].cached, d.dbg)
                       ELSE RateLimited(d.dbg)]
  /\ UNCHANGED <<now, has_key, db_lock, cache, http_day, http_count>>

\* ---------------------------------------------------- _serpapi_call_sold
\* except HTTPException, cached: the stale entry with refresh_failed
FailedResult(cached, detail) ==
  [NoResult EXCEPT !.kind = "return", !.items = cached.items, !.cache = "HIT",
                   !.stale = "true", !.ttl_seconds = TTL_SECONDS_FALLBACK,
                   !.upstream_detail = detail]

\* except HTTPException, nothing cached: raise
UpstreamError(detail) ==
  [NoResult EXCEPT !.kind = "raise", !.exc = "HTTPException", !.status_code = 502,
                   !.reason = detail.reason, !.upstream_detail = detail]

\* an exception of requests.get is no HTTPException: no handler of fetch_ebay_sold
\* catches it, cached or not
Unhandled ==
  [NoResult EXCEPT !.kind = "raise", !.exc = "RequestException", !.status_code = 500]

\* an except clause that raises again whatever the cache holds
OnHTTPExceptionReraise(cached, detail) == UpstreamError(detail)
\* the except clause of fetch_ebay_sold
OnHTTPException(cached, detail) ==
  IF cached.found THEN FailedResult(cached, detail) ELSE UpstreamError(detail)

\* the observer counts one more HTTP request on the current calendar day
CountRequest ==
  /\ http_day' = TodayKey(now)
  /\ http_count' = IF http_day = TodayKey(now) THEN http_count + 1 ELSE 1

\* one pass of the retry loop: requests.get answers with outcome o and, when
\* that is a good answer, the organic results raw
HttpGet(t, o, raw) ==
  /\ pc[t] = "request"
  /\ CountRequest
  /\ LET status == StatusOf(o)
         detail == [reason |-> IF status = 200 THEN "serpapi_error" ELSE "serpapi_failed",
                    attempt |-> loc[t].attempt, status_code |-> status]
     IN CASE o = "timeout" ->
               /\ loc' = [loc EXCEPT ![t].sent = @ + 1, ![t].status_code = 0]
               /\ result' = [result EXCEPT ![t] = Unhandled]
               /\ pc' = [pc EXCEPT ![t] = "done"]
          [] status >= 500 ->
               /\ loc' = [loc EXCEPT ![t].sent = @ + 1, ![t].status_code = status,
                                     ![t].wake = now + Sec(backoffs[loc[t].attempt])]
               /\ pc' = [pc EXCEPT ![t] = "sleep"]
               /\ UNCHANGED result
          [] o = "ok" ->
               /\ loc' = [loc EXCEPT ![t].sent = @ + 1, ![t].status_code = status,
                                     ![t].comps = Normalise(raw, loc[t].limit)]
               /\ pc' = [pc EXCEPT ![t] = "cache_set"]
               /\ UNCHANGED result
          [] OTHER ->
               /\ loc' = [loc EXCEPT ![t].sent = @ + 1, ![t].status_code = status]
               /\ result' = [result EXCEPT ![t] = OnHTTPException(loc[t].cached, detail)]
               /\ pc' = [pc EXCEPT ![t] = "done"]
  /\ UNCHANGED <<now, has_key, last_call_ts, day_key, day_calls, limiter_lock, db_lock,
                 cache, last_grant, last_ask>>

\* a sleep that returns at once
WakeEarly(t) ==
  /\ pc[t] = "sleep"
  /\ IF loc[t].attempt < Len(backoffs)
     THEN /\ loc' = [loc EXCEPT ![t].attempt = @ + 1]
          /\ pc' = [pc EXCEPT ![t] = "request"]
          /\ UNCHANGED result
     ELSE /\ result' = [result EXCEPT ![t] =
                 OnHTTPException(loc[t].cached,
                                 [reason |-> "serpapi_failed", attempt |-> loc[t].attempt,
                                  status_code |-> loc[t].status_code])]
          /\ pc' = [pc EXCEPT ![t] = "done"]
          /\ UNCHANGED loc
  /\ UNCHANGED <<now, has_key, last_call_ts, day_key, day_calls, limiter_lock, db_lock,
                 cache, last_grant,
                 last_ask, http_day, http_count>>

\* time.sleep(wait_s) is over: the next attempt, or the end of the loop with the
\* last status still >= 500
Wake(t) ==
  /\ pc[t] = "sleep"
  /\ now >= loc[t].wake
  /\ IF loc[t].attempt < Len(backoffs)
     THEN /\ loc' = [loc EXCEPT ![t].attempt = @ + 1]
          /\ pc' = [pc EXCEPT ![t] = "request"]
          /\ UNCHANGED result
     ELSE /\ result' = [result EXCEPT ![t] =
                 OnHTTPException(loc[t].cached,
                                 [reason |-> "serpapi_failed", attempt |-> loc[t].attempt,
                                  status_code |-> loc[t].status_code])]
          /\ pc' = [pc EXCEPT ![t] = "done"]
          /\ UNCHANGED loc
  /\ UNCHANGED <<now, has_key, last_call_ts, day_key, day_calls, limiter_lock, db_lock,
                 cache, last_grant,
                 last_ask, http_day, http_count>>

\* ------------------------------------------------------------ _cache_set
\* ts = int(time.time()), taken before _db_lock
CacheSetStamp(t) ==
  /\ pc[t] = "cache_set"
  /\ loc' = [loc EXCEPT ![t].ts = IntTime(now)]
  /\ pc' = [pc EXCEPT ![t] = "cache_set_lock"]
  /\ UNCHANGED <<now, has_key, last_call_ts, day_key, day_calls, limiter_lock, db_lock,
                 cache, result, last_grant,
                 last_ask, http_day, http_count>>

CacheSetLock(t) ==
  /\ pc[t] = "cache_set_lock"
  /\ db_lock = NoThread
  /\ db_lock' = t
  /\ pc' = [pc EXCEPT ![t] = "cache_write"]
  /\ UNCHANGED <<now, has_key, last_call_ts, day_key, day_calls, limiter_lock,
                 cache, loc, result, last_grant,
                 last_ask, http_day, http_count>>

MissResult(comps) ==
  [NoResult EXCEPT !.kind = "return", !.items = comps, !.cache = "MISS",
                   !.ttl_seconds = TTL_SECONDS_DEFAULT]

\* INSERT OR REPLACE and commit, the release of _db_lock, and return out
CacheSetWrite(t) ==
  /\ pc[t] = "cache_write"
  /\ db_lock = t
  /\ cache' = [cache EXCEPT ![KeyOf(t)] =
                 [present |-> TRUE, ts |-> loc[t].ts, valid |-> TRUE,
                  items |-> loc[t].comps]]
  /\ db_lock' = NoThread
  /\ result' = [result EXCEPT ![t] = MissResult(loc[t].comps)]
  /\ pc' = [pc EXCEPT ![t] = "done"]
  /\ UNCHANGED <<now, has_key, last_call_ts, day_key, day_calls, limiter_lock,
                 loc, last_grant,
                 last_ask, http_day, http_count>>

\* the caller has the result; the thread serves the next request
Return(t) ==
  /\ pc[t] = "done"
  /\ pc' = [pc EXCEPT ![t] = "idle"]
  /\ loc' = [loc EXCEPT ![t] = InitLoc]
  /\ result' = [result EXCEPT ![t] = NoResult]
  /\ UNCHANGED <<now, has_key, last_call_ts, day_key, day_calls, limiter_lock, db_lock,
                 cache, last_grant,
                 last_ask, http_day, http_count>>

\* _cache_clear: DELETE FROM cache, with _db_lock
CacheClear ==
  /\ db_lock = NoThread
  /\ cache' = [k \in Keys |-> NoRow]
  /\ UNCHANGED <<now, has_key, last_call_ts, day_key, day_calls, limiter_lock, db_lock,
                 pc, loc, result, last_grant,
                 last_ask, http_day, http_count>>

\* --------------------------------------------------------- specification
\* two request threads serve concurrent requests for one (query, limit)
Next ==
  \/ \E d \in ShortSteps : Tick(d, ShortClock)
  \/ \E t \in Threads, q \in Queries : Start(t, q, LIMIT_MIN)
  \/ \E t \in Threads : CacheGetLock(t)
  \/ \E t \in Threads : CacheGetSelect(t)
  \/ \E t \in Threads : CacheGetParse(t)
  \/ \E t \in Threads : LimiterLock(t)
  \/ \E t \in Threads : LimiterAllow(t)
  \/ \E t \in Threads, o \in Outcomes, raw \in RawResponses : HttpGet(t, o, raw)
  \/ \E t \in Threads : Wake(t)
  \/ \E t \in Threads : CacheSetStamp(t)
  \/ \E t \in Threads : CacheSetLock(t)
  \/ \E t \in Threads : CacheSetWrite(t)
  \/ \E t \in Threads : Return(t)
  \/ CacheClear

Spec == Init /\ [][Next]_vars

Sleeping(t) == pc[t] = "sleep" /\ now < loc[t].wake

\* the clock reaches the wake-up time of a sleeping thread
Backoff(t) ==
  /\ Sleeping(t)
  /\ \A u \in Threads : pc[u] = "idle" \/ (Sleeping(u) /\ loc[t].wake <= loc[u].wake)
  /\ now' = loc[t].wake
  /\ UNCHANGED <<has_key, last_call_ts, day_key, day_calls, limiter_lock, db_lock,
                 cache, pc, loc, result, last_grant,
                 last_ask, http_day, http_count>>

\* a fresh TTL passes while the thread is between two requests or in a backoff
LongWait(t) ==
  /\ pc[t] \in {"idle", "sleep"}
  /\ Tick(Grid, LongClock)

\* one request thread serves requests for every (query, limit), one after the other
NextSeq ==
  \/ \E d \in ShortSteps : Tick(d, LongClock)
  \/ LongWait("t1")
  \/ \E q \in Queries, l \in RequestedLimits : Start("t1", q, l)
  \/ CacheGetLock("t1")
  \/ CacheGetSelect("t1")
  \/ CacheGetParse("t1")
  \/ LimiterLock("t1")
  \/ LimiterAllow("t1")
  \/ \E o \in Outcomes, raw \in RawResponses : HttpGet("t1", o, raw)
  \/ Wake("t1")
  \/ CacheSetStamp("t1")
  \/ CacheSetLock("t1")
  \/ CacheSetWrite("t1")
  \/ Return("t1")
  \/ CacheClear

SpecSeq == InitSeq /\ [][NextSeq]_vars

\* --------------------------------------------------- the saturating load
\* The upstream is down (every answer is a 5xx) and one client asks again as soon
\* as its request is over: time passes only while every request in progress
\* sleeps in a backoff, and at the end of the day.  The cache may be cleared.
QuotaClock == 2 * Day + Sec(QuotaTailSec)

\* the clock reaches the next local midnight
Midnight ==
  /\ \A u \in Threads : pc[u] = "idle"
  /\ (TodayKey(now) + 1) * Day <= QuotaClock
  /\ now' = (TodayKey(now) + 1) * Day
  /\ UNCHANGED <<has_key, last_call_ts, day_key, day_calls, limiter_lock, db_lock,
                 cache, pc, loc, result, last_grant,
                 last_ask, http_day, http_count>>

\* after midnight, second by second
AfterMidnight ==
  /\ \A u \in Threads : pc[u] = "idle"
  /\ now >= 2 * Day
  /\ Tick(Sec(1), QuotaClock)

NextQuota ==
  \/ Backoff("t1")
  \/ Midnight
  \/ AfterMidnight
  \/ \E q \in Queries : Start("t1", q, LIMIT_MIN)
  \/ CacheGetLock("t1")
  \/ CacheGetSelect("t1")
  \/ CacheGetParse("t1")
  \/ LimiterLock("t1")
  \/ LimiterAllow("t1")
  \/ \E raw \in RawResponses : HttpGet("t1", "server_error", raw)
  \/ Wake("t1")
  \/ Return("t1")
  \/ CacheClear

SpecQuota == Init /\ [][NextQuota]_vars

\* ------------------------------------------------------ the retry loop
\* One request thread; the upstream answers each attempt in any way; time passes
\* only while the thread sleeps in a backoff.  A request is started while the
\* backoffs of a whole retry loop still fit before the clock stops, and the thread
\* keeps running: a request is answered or times out, a sleep ends.
RECURSIVE SumSeq(_)
SumSeq(s) == IF s = <<>> THEN 0 ELSE Head(s) + SumSeq(Tail(s))
RetryClock == Day + Sec(RetryLoops * SumSeq(backoffs))

RetryLoop ==
  \/ Backoff("t1")
  \/ \E o \in Outcomes, raw \in RawResponses : HttpGet("t1", o, raw)
  \/ Wake("t1")

NextRetry ==
  \/ RetryLoop
  \/ \E q \in Queries :
       now + Sec(SumSeq(backoffs)) <= RetryClock /\ Start("t1", q, LIMIT_MIN)
  \/ CacheGetLock("t1")
  \/ CacheGetSelect("t1")
  \/ CacheGetParse("t1")
  \/ LimiterLock("t1")
  \/ LimiterAllow("t1")
  \/ CacheSetStamp("t1")
  \/ CacheSetLock("t1")
  \/ CacheSetWrite("t1")
  \/ Return("t1")
  \/ CacheClear

SpecRetry == Init /\ [][NextRetry]_vars /\ WF_vars(RetryLoop)

\* ------------------------------------------------------ the day change
\* One request thread serves requests for one (query, limit) from shortly before
\* to shortly after a local midnight; the cache may be cleared.
Eve == 2 * Day - MaxOffset
Morning == 2 * Day + MaxOffset

NextMidnight ==
  \/ \E d \in ShortSteps : Tick(d, Morning)
  \/ \E q \in Queries : Start("t1", q, LIMIT_MIN)
  \/ CacheGetLock("t1")
  \/ CacheGetSelect("t1")
  \/ CacheGetParse("t1")
  \/ LimiterLock("t1")
  \/ LimiterAllow("t1")
  \/ \E o \in Outcomes, raw \in RawResponses : HttpGet("t1", o, raw)
  \/ Wake("t1")
  \/ CacheSetStamp("t1")
  \/ CacheSetLock("t1")
  \/ CacheSetWrite("t1")
  \/ Return("t1")
  \/ CacheClear

SpecMidnight ==
  /\ \E row \in {NoRow, StaleDiskRow(Eve)} : Boot(Eve, TRUE, row)
  /\ [][NextMidnight]_vars

\* ------------------------------------------------ requests for many keys
\* Two request threads ask for every (query, limit); the upstream always answers
\* with the same results, and the limiter interval may pass once.
KeysClock == Day + Sec(MIN_SECONDS_BETWEEN_CALLS)

\* the upstream's answer with more than one retained item
LongResponse == CHOOSE raw \in RawResponses : Len(SelectSeq(raw, Retained)) > LIMIT_MIN

\* the limiter interval passes
Interval ==
  /\ now + Sec(MIN_SECONDS_BETWEEN_CALLS) <= KeysClock
  /\ now' = now + Sec(MIN_SECONDS_BETWEEN_CALLS)
  /\ UNCHANGED <<has_key, last_call_ts, day_key, day_calls, limiter_lock, db_lock,
                 cache, pc, loc, result, last_grant,
                 last_ask, http_day, http_count>>

NextKeys ==
  \/ Interval
  \/ \E t \in Threads, q \in KeyQueries, l \in KeyLimits : Start(t, q, l)
  \/ \E t \in Threads : CacheGetLock(t)
  \/ \E t \in Threads : CacheGetSelect(t)
  \/ \E t \in Threads : CacheGetParse(t)
  \/ \E t \in Threads : LimiterLock(t)
  \/ \E t \in Threads : LimiterAllow(t)
  \/ \E t \in Threads : HttpGet(t, "ok", LongResponse)
  \/ \E t \in Threads : CacheSetStamp(t)
  \/ \E t \in Threads : CacheSetLock(t)
  \/ \E t \in Threads : CacheSetWrite(t)
  \/ \E t \in Threads : Return(t)

SpecKeys == Boot(Day, TRUE, NoRow) /\ [][NextKeys]_vars

\* ================================================================ claims
Abs(x) == IF x < 0 THEN -x ELSE x

\* the thread has been through _limiter_allow in its current fetch
Asked(t) == loc[t].asked
\* the calendar day on which the limiter evaluated the thread's call
AskedDay(t) == TodayKey(loc[t].asked_at)
\* two calls evaluated on one calendar day, less than the limiter interval apart
SameWindow(t, u) ==
  /\ Asked(t) /\ Asked(u)
  /\ AskedDay(t) = AskedDay(u)
  /\ Abs(loc[t].asked_at - loc[u].asked_at) < Sec(MIN_SECONDS_BETWEEN_CALLS)

\* the fallback branch of a denied fetch: the stale entry, or RateLimited; no
\* upstream request
TookFallback(t) ==
  /\ ~loc[t].allowed
  /\ loc[t].sent = 0
  /\ pc[t] = "done"
  /\ result[t] = IF loc[t].cached.found
                 THEN SkippedResult(loc[t].cached, loc[t].lim_dbg)
                 ELSE RateLimited(loc[t].lim_dbg)

\* C1, on the calls in progress: of two fetches without a fresh entry whose limiter
\* calls are evaluated in the same window, never both are Allowed; when one is
\* Allowed the other takes the fallback branch without an upstream request; and a
\* call is denied for min_interval only when a call was Allowed less than the
\* interval before it (or after it), so the slot of a window is never lost.
RaceInv ==
  /\ \A t, u \in Threads :
       (t # u /\ SameWindow(t, u)) =>
         /\ ~(loc[t].allowed /\ loc[u].allowed)
         /\ loc[t].allowed => TookFallback(u)
  /\ \A t \in Threads :
       (Asked(t) /\ loc[t].lim_dbg.reason = "min_interval") =>
         /\ last_grant.n >= 1
         /\ last_grant.day = AskedDay(t)
         /\ loc[t].asked_at - last_grant.at < Sec(MIN_SECONDS_BETWEEN_CALLS)

\* C1, on all calls: an Allowed decision comes at least the limiter interval after
\* the Allowed decision before it on the same calendar day.
GrantSpacing ==
  (last_grant' # last_grant /\ last_grant'.day = last_grant.day) =>
    last_grant'.at - last_grant.at >= Sec(MIN_SECONDS_BETWEEN_CALLS)

Decides(t) == pc[t] = "limiter_body" /\ pc'[t] # "limiter_body"

\* C2, the decision at the cap: once MAX_CALLS_PER_DAY calls were Allowed on the
\* current calendar day, the call is Denied with reason daily_cap, carrying the
\* count and the cap, and the count stays; the first call evaluated on a new
\* calendar day finds the count reset to zero.
CapStep ==
  \A t \in Threads :
    Decides(t) =>
      /\ (last_grant.day = TodayKey(now) /\ last_grant.n >= MAX_CALLS_PER_DAY) =>
           /\ ~loc'[t].allowed
           /\ loc'[t].lim_dbg = [reason |-> "daily_cap", retry_after_seconds |-> 0,
                                 day_calls |-> last_grant.n,
                                 day_cap |-> MAX_CALLS_PER_DAY]
           /\ day_calls' = day_calls
      /\ day_key # TodayKey(now) =>
           /\ day_key' = TodayKey(now)
           /\ day_calls' = IF loc'[t].allowed THEN 1 ELSE 0

\* C2, in every state: the count, and the number of calls Allowed on one calendar
\* day, never exceed the cap
CapInv ==
  /\ day_calls <= MAX_CALLS_PER_DAY
  /\ last_grant.n <= MAX_CALLS_PER_DAY

\* C2: daily cap: in every reachable state dayCallCount <= dailyCap; once dailyCap
\* calls have been Allowed within one local calendar day every further allow() that
\* day is Denied with reason daily_cap (carrying count and cap), and the first
\* allow() evaluated on a new calendar day resets the count to zero before deciding.
C2_DailyCap == [](CapInv) /\ [][CapStep]_vars

\* C2 witness: MAX_CALLS_PER_DAY calls were Allowed today and a further call is
\* denied for it, the count unchanged
C2_Witness ==
  /\ pc["t1"] = "done"
  /\ loc["t1"].lim_dbg.reason = "daily_cap"
  /\ result["t1"].limiter_detail.day_calls = MAX_CALLS_PER_DAY
  /\ last_grant.n = MAX_CALLS_PER_DAY /\ last_grant.day = AskedDay("t1")
  /\ day_calls = MAX_CALLS_PER_DAY

\* C3: the number of HTTP requests sent to the upstream within one local calendar
\* day, every retry attempt counted, is at most the daily cap.
C3_QuotaRespected == http_count <= MAX_CALLS_PER_DAY

\* C4: whenever the lookup of a fetch finds a parseable cache entry, the fetch
\* returns a result document (fresh or stale) and never raises, whatever the
\* limiter state or the kind of upstream failure.
C4_NeverFailsWithCache ==
  \A t \in Threads :
    (pc[t] = "done" /\ loc[t].cached.found) => result[t].kind = "return"

\* C5, on the results: an entry read with age <= TTL_SECONDS_DEFAULT is returned as
\* a HIT, not stale, with the item list read, and the fetch has neither asked the
\* limiter nor sent a request; nothing is returned as not stale otherwise.
HitInv ==
  \A t \in Threads :
    pc[t] = "done" =>
      /\ (loc[t].cached.found /\ loc[t].cached.age <= TTL_SECONDS_DEFAULT) =>
           /\ result[t] = [NoResult EXCEPT !.kind = "return",
                                           !.items = loc[t].cached.items,
                                           !.cache = "HIT", !.stale = "false",
                                           !.ttl_seconds = TTL_SECONDS_DEFAULT]
           /\ ~Asked(t)
           /\ loc[t].sent = 0
      /\ (result[t].kind = "return" /\ result[t].stale = "false") =>
           /\ loc[t].cached.found
           /\ loc[t].cached.age <= TTL_SECONDS_DEFAULT

\* C5, on the read: the age is the whole seconds between the row's ts and the
\* read; up to TTL_SECONDS_DEFAULT the fetch ends there with the row's items and
\* the limiter state and the request counter are untouched; beyond it the fetch
\* goes on to the limiter.
HitStep ==
  \A t \in Threads :
    (pc[t] = "cache_parse" /\ pc'[t] # "cache_parse") =>
      LET row == loc[t].row
          age == IntTime(now) - row.ts
      IN (row.present /\ row.valid) =>
           /\ loc'[t].cached = [found |-> TRUE, ts |-> row.ts, age |-> age,
                                items |-> row.items]
           /\ age <= TTL_SECONDS_DEFAULT =>
                /\ pc'[t] = "done"
                /\ result'[t].items = row.items
                /\ UNCHANGED <<last_call_ts, day_key, day_calls, http_day, http_count>>
           /\ age > TTL_SECONDS_DEFAULT => pc'[t] = "limiter"

\* C5: a cache entry written at time T is returned tagged cache=HIT, stale=false
\* with the same item list for every read with age <= freshTTL, and then neither the
\* limiter state nor the upstream call counter changes; for a read with
\* age > freshTTL the entry is never returned with stale=false.
C5_Freshness == [](HitInv) /\ [][HitStep]_vars

\* C5 witness: a HIT on an entry whose age is exactly TTL_SECONDS_DEFAULT
C5_Witness ==
  /\ pc["t1"] = "done"
  /\ result["t1"].cache = "HIT" /\ result["t1"].stale = "false"
  /\ loc["t1"].cached.age = TTL_SECONDS_DEFAULT

\* C6: when a cache entry that is not fresh exists and the limiter denies, fetch
\* returns the cached payload tagged stale=true with the limiter's denial detail,
\* and the reported TTL is the fallback TTL (TTL_SECONDS_FALLBACK).
C6_DeniedFallback ==
  \A t \in Threads :
    (pc[t] = "done" /\ loc[t].cached.found /\ Asked(t) /\ ~loc[t].allowed) =>
      result[t] = [NoResult EXCEPT !.kind = "return", !.items = loc[t].cached.items,
                                   !.cache = "HIT", !.stale = "true",
                                   !.ttl_seconds = TTL_SECONDS_FALLBACK,
                                   !.limiter_detail = loc[t].lim_dbg]

\* every attempt of the thread's upstream call was answered with a 5xx
RetriesExhausted(t) ==
  /\ pc[t] = "done"
  /\ loc[t].allowed
  /\ loc[t].sent = Len(backoffs)
  /\ loc[t].status_code >= 500

\* C7: when an entry that is not fresh exists, the limiter allows and the upstream
\* answers 5xx on every attempt until the retries are exhausted, fetch returns the
\* cached payload tagged stale=true with the upstream failure detail, and the stored
\* entry (payload and ts) is as it was read, unless the cache was cleared meanwhile.
C7_UpstreamFallback ==
  \A t \in Threads :
    (RetriesExhausted(t) /\ loc[t].cached.found) =>
      /\ result[t] = [NoResult EXCEPT
                        !.kind = "return", !.items = loc[t].cached.items,
                        !.cache = "HIT", !.stale = "true",
                        !.ttl_seconds = TTL_SECONDS_FALLBACK,
                        !.upstream_detail = [reason |-> "serpapi_failed",
                                             attempt |-> Len(backoffs),
                                             status_code |-> loc[t].status_code]]
      /\ \/ cache[KeyOf(t)] = NoRow
         \/ cache[KeyOf(t)] = [present |-> TRUE, ts |-> loc[t].cached.ts,
                               valid |-> TRUE, items |-> loc[t].cached.items]

\* C7 witness: three 5xx answers, the stale entry returned, the row still stored
C7_Witness ==
  /\ RetriesExhausted("t1")
  /\ loc["t1"].cached.found
  /\ result["t1"].stale = "true"
  /\ result["t1"].upstream_detail.attempt = Len(backoffs)
  /\ cache[KeyOf("t1")].present

\* C8: with no cache entry, a limiter denial makes fetch fail with RateLimited (429,
\* local_rate_limited) carrying the limiter's detail, with the retry-after hint for
\* min_interval, and no upstream request is sent; with no cache entry, the limiter
\* allowing and the upstream call failing, fetch fails with UpstreamError and no
\* cache entry is created.
C8_NoCacheFailure ==
  \A t \in Threads :
    (pc[t] = "done" /\ Asked(t) /\ ~loc[t].cached.found) =>
      /\ ~loc[t].allowed =>
           /\ result[t] = RateLimited(loc[t].lim_dbg)
           /\ loc[t].lim_dbg.reason \in {"daily_cap", "min_interval"}
           /\ loc[t].lim_dbg.reason = "min_interval" =>
                loc[t].lim_dbg.retry_after_seconds >= 1
           /\ loc[t].sent = 0
      /\ (loc[t].allowed /\ result[t].kind = "raise") =>
           /\ result[t].exc = "HTTPException"
           /\ result[t].status_code = 502
           /\ result[t].reason \in {"serpapi_failed", "serpapi_error"}
           /\ ~(cache[KeyOf(t)].present /\ cache[KeyOf(t)].valid)

\* C10, on every step: a row changes only when every row is deleted by
\* _cache_clear, or when a fetch that the limiter allowed and whose upstream call
\* answered 200 writes its result under its own key.
CacheStep ==
  \A k \in Keys :
    cache'[k] # cache[k] =>
      \/ /\ \A j \in Keys : cache'[j] = NoRow
         /\ pc' = pc /\ loc' = loc
      \/ \E t \in Threads :
           /\ pc[t] = "cache_write" /\ pc'[t] = "done"
           /\ k = KeyOf(t)
           /\ loc[t].allowed /\ loc[t].sent >= 1 /\ loc[t].status_code = 200
           /\ cache'[k] = [present |-> TRUE, ts |-> loc[t].ts, valid |-> TRUE,
                           items |-> loc[t].comps]
           /\ result'[t].cache = "MISS"
           /\ \A j \in Keys \ {k} : cache'[j] = cache[j]

\* C10: over any sequence of fetch and clear-all operations, a cache entry is
\* created or overwritten only by a fetch whose upstream call succeeded after the
\* limiter allowed it (never by a HIT, a stale fallback or a failed call), and an
\* existing entry disappears only through clear-all.
C10_CacheLifecycle == [][CacheStep]_vars

\* C10 witness: a fetch has just written its result; the other thread reads the
\* entry as a HIT and the row is the one written
C10_Witness ==
  /\ pc["t1"] = "done" /\ result["t1"].cache = "MISS"
  /\ pc["t2"] = "done" /\ result["t2"].cache = "HIT" /\ result["t2"].stale = "false"
  /\ cache[KeyOf("t1")] = [present |-> TRUE, ts |-> loc["t1"].ts, valid |-> TRUE,
                           items |-> loc["t1"].comps]

\* the fetch of the thread is past the clamp and has not returned
InFetch(t) == pc[t] # "idle" /\ loc[t].limit >= LIMIT_MIN

\* the only cache accesses of a step: the SELECT of a fetch reads the row under the
\* key of its query and clamped limit, and a changed row is the row under the key of
\* the fetch that writes
KeyedAccess ==
  /\ \A t \in Threads :
       (pc[t] = "cache_select" /\ pc'[t] = "cache_parse") =>
         loc'[t].row = cache[CacheKey(loc[t].query, ClampLimit(loc[t].requested))]
  /\ \A k \in Keys :
       cache'[k] # cache[k] =>
         \E t \in Threads :
           /\ pc[t] = "cache_write" /\ pc'[t] = "done"
           /\ k = CacheKey(loc[t].query, ClampLimit(loc[t].requested))

\* C9 as stated: two fetches of one query use the same cache entry exactly when
\* their requested limits are equal.
C9_RequestedSeparation ==
  \A t, u \in Threads :
    (InFetch(t) /\ InFetch(u) /\ loc[t].query = loc[u].query) =>
      (KeyOf(t) = KeyOf(u) <=> loc[t].requested = loc[u].requested)

\* two fetches use the same entry exactly when their queries are equal and their
\* limits, clamped to [LIMIT_MIN, LIMIT_MAX], are equal
ClampedInv ==
  \A t, u \in Threads :
    (InFetch(t) /\ InFetch(u)) =>
      (KeyOf(t) = KeyOf(u) <=>
         /\ loc[t].query = loc[u].query
         /\ ClampLimit(loc[t].requested) = ClampLimit(loc[u].requested))

\* C9, amended: for every query and every pair of requested limits, fetch(q, l1) and
\* fetch(q, l2) read and write the same cache entry when l1 and l2 clamp to the same
\* value in [1, 200] (so when l1 = l2), and never the same entry when they clamp to
\* different values; every read and write of a fetch goes to the entry of its query
\* and clamped limit.
C9_ClampedSeparation == [](ClampedInv) /\ [][KeyedAccess]_vars

\* C9 witness: fetches of one query with requested limits 1 and 2 have each written
\* an entry, the two entries are different rows of the table, and each holds the
\* result cut to its limit
C9_Witness ==
  /\ pc["t1"] = "done" /\ result["t1"].cache = "MISS" /\ loc["t1"].requested = 1
  /\ pc["t2"] = "done" /\ result["t2"].cache = "MISS" /\ loc["t2"].requested = 2
  /\ loc["t1"].query = loc["t2"].query
  /\ KeyOf("t1") # KeyOf("t2")
  /\ cache[KeyOf("t1")].present /\ Len(cache[KeyOf("t1")].items) = 1
  /\ cache[KeyOf("t2")].present /\ Len(cache[KeyOf("t2")].items) = 2

\* the thread is in the retry loop of _serpapi_call_sold
InLoop(t) == pc[t] \in {"request", "sleep"}

\* the failure detail of a call that ends at the thread's current attempt
LastDebug(t, status) ==
  [reason |-> "serpapi_failed", attempt |-> loc[t].attempt, status_code |-> status]

\* C11, the counts: a call sends at most Len(backoffs) = 3 requests, one per
\* attempt; a thread sleeps only after a 5xx answer; a result written to the cache
\* comes from an attempt answered 200.
RetryInv ==
  \A t \in Threads :
    /\ loc[t].sent <= Len(backoffs)
    /\ pc[t] = "request" => loc[t].attempt \in 1..Len(backoffs) /\ loc[t].sent = loc[t].attempt - 1
    /\ pc[t] = "sleep" =>
         /\ loc[t].attempt \in 1..Len(backoffs) /\ loc[t].sent = loc[t].attempt
         /\ loc[t].status_code >= 500
         /\ loc[t].wake - now <= Sec(backoffs[loc[t].attempt])
    /\ pc[t] \in {"cache_set", "cache_set_lock", "cache_write"} =>
         loc[t].status_code = 200 /\ loc[t].sent = loc[t].attempt

\* C11, the steps of the loop: a request answered with a status >= 500 is followed
\* by a sleep of 2, 4, 8 s for attempt 1, 2, 3; any other answer ends the loop with
\* this request and without a sleep, a status other than 200 as UpstreamError with
\* the status and the number of the attempt; a sleep ends when its time is over,
\* into the next attempt, or after the last one into UpstreamError with the last
\* status and attempt.  (UpstreamError reaches the caller through the except clause
\* of fetch, which returns the stale entry with the same detail when there is one.)
RetryStep ==
  \A t \in Threads :
    /\ (pc[t] = "request" /\ pc'[t] # "request") =>
         /\ loc'[t].sent = loc[t].sent + 1
         /\ loc'[t].attempt = loc[t].attempt
         /\ now' = now
         /\ IF loc'[t].status_code >= 500
            THEN /\ pc'[t] = "sleep"
                 /\ loc'[t].wake = now + Sec(backoffs[loc[t].attempt])
            ELSE /\ pc'[t] \in {"cache_set", "done"}
                 /\ loc'[t].wake = loc[t].wake
                 /\ pc'[t] = "cache_set" => loc'[t].status_code = 200
                 /\ loc'[t].status_code \notin {0, 200} =>
                      result'[t] = OnHTTPException(loc[t].cached,
                                                   LastDebug(t, loc'[t].status_code))
    /\ (pc[t] = "sleep" /\ pc'[t] # "sleep") =>
         /\ now >= loc[t].wake
         /\ loc'[t].sent = loc[t].sent
         /\ IF loc[t].attempt < Len(backoffs)
            THEN pc'[t] = "request" /\ loc'[t].attempt = loc[t].attempt + 1
            ELSE /\ pc'[t] = "done"
                 /\ result'[t] = OnHTTPException(loc[t].cached,
                                                 LastDebug(t, loc[t].status_code))

\* C11: the retry protocol of _serpapi_call_sold, and its termination: a thread in
\* the loop leaves it (into the cache write or with fetch's result).
C11_RetryProtocol ==
  /\ [](RetryInv)
  /\ [][RetryStep]_vars
  /\ \A t \in Threads : InLoop(t) ~> ~InLoop(t)

\* C11 witness: a 5xx on the first two attempts, a 200 with results on the third,
\* 2 + 4 s after the first request: the fetch returns the result as a MISS
C11_Witness ==
  /\ pc["t1"] = "done" /\ result["t1"].cache = "MISS"
  /\ loc["t1"].sent = Len(backoffs)
  /\ now = loc["t1"].asked_at + Sec(backoffs[1] + backoffs[2])

\* C12: every document fetch returns (fresh HIT, MISS, stale fallback) carries the
\* cache status HIT or MISS, the staleness flag and the TTL, and a stale fallback
\* carries the limiter or upstream detail that caused it.
C12_DebugBlock ==
  \A t \in Threads :
    (pc[t] = "done" /\ result[t].kind = "return") =>
      /\ result[t].cache \in {"HIT", "MISS"}
      /\ result[t].stale \in {"true", "false"}
      /\ result[t].ttl_seconds \in {TTL_SECONDS_DEFAULT, TTL_SECONDS_FALLBACK}
      /\ result[t].stale = "true" =>
           \/ result[t].limiter_detail # NoDbg
           \/ result[t].upstream_detail # NoDetail

\* thread t leaves _limiter_allow with its decision in this step
Decided(t) == pc[t] = "limiter_body" /\ pc'[t] # "limiter_body"

\* the daily cap is reached on the current calendar day
AtCap == last_grant.day = TodayKey(now) /\ last_grant.n >= MAX_CALLS_PER_DAY

\* a call was Allowed on the current calendar day less than the interval ago
RecentGrant ==
  /\ last_grant.day = TodayKey(now)
  /\ now - last_grant.at < Sec(MIN_SECONDS_BETWEEN_CALLS)

\* C13 as stated: of two consecutive _limiter_allow calls less than the interval
\* apart the second is denied with min_interval, and when they are at least the
\* interval apart and the daily cap is not reached the second is Allowed.
ConsecutiveStep ==
  \A t \in Threads :
    (Decided(t) /\ last_ask.any) =>
      /\ now - last_ask.at < Sec(MIN_SECONDS_BETWEEN_CALLS) =>
           ~loc'[t].allowed /\ loc'[t].lim_dbg.reason = "min_interval"
      /\ (now - last_ask.at >= Sec(MIN_SECONDS_BETWEEN_CALLS) /\ ~AtCap) =>
           loc'[t].allowed

C13_ConsecutiveCalls == [][ConsecutiveStep]_vars

\* the interval counts from the last Allowed call of the day
IntervalStep ==
  \A t \in Threads :
    (Decided(t) /\ ~AtCap) =>
      IF RecentGrant
      THEN ~loc'[t].allowed /\ loc'[t].lim_dbg.reason = "min_interval"
      ELSE loc'[t].allowed

\* C13, amended: while the daily cap is not reached, a _limiter_allow call evaluated
\* less than the interval after the last call that was Allowed on its calendar day
\* is denied with min_interval, whatever denied calls came in between, and a call
\* evaluated at least the interval after it (or the first call of the day) is
\* Allowed.
C13_IntervalRule == [][IntervalStep]_vars

\* C13 witness: a call was denied with min_interval, and the next call, less than
\* the interval later but the interval after the last Allowed one, is Allowed
C13_Witness ==
  /\ loc["t1"].asked /\ ~loc["t1"].allowed
  /\ loc["t1"].lim_dbg.reason = "min_interval"
  /\ loc["t2"].allowed /\ last_ask = [any |-> TRUE, at |-> loc["t2"].asked_at, allowed |-> TRUE]
  /\ loc["t2"].asked_at > loc["t1"].asked_at
  /\ loc["t2"].asked_at - loc["t1"].asked_at < Sec(MIN_SECONDS_BETWEEN_CALLS)

RECURSIVE FirstRetained(_, _)
\* the first k retained items of raw (all of them when there are fewer), in order
FirstRetained(raw, k) ==
  IF raw = <<>> \/ k = 0 THEN <<>>
  ELSE IF Retained(Head(raw))
       THEN <<Head(raw)>> \o FirstRetained(Tail(raw), k - 1)
       ELSE FirstRetained(Tail(raw), k)

\* thread t returns the MISS document in this step
ReturnsMiss(t) == pc[t] # "done" /\ pc'[t] = "done" /\ result'[t].cache = "MISS"

\* a MISS is returned only without a fresh entry, after the limiter allowed and the
\* upstream answered 200; its items are the first min(limit, n) retained items of
\* the upstream's answer, at most the clamped limit; and the step leaves a cache
\* entry for (query, clamped limit) holding exactly these items
MissStep ==
  \A t \in Threads :
    ReturnsMiss(t) =>
      /\ ~IsFresh(loc[t].cached) /\ loc[t].allowed /\ loc[t].status_code = 200
      /\ result'[t].kind = "return"
      /\ \E raw \in RawResponses :
           result'[t].items = FirstRetained(raw, ClampLimit(loc[t].requested))
      /\ Len(result'[t].items) <= ClampLimit(loc[t].requested)
      /\ LET row == cache'[CacheKey(loc[t].query, ClampLimit(loc[t].requested))]
         IN row.present /\ row.valid /\ row.items = result'[t].items

\* a good answer of the upstream is on its way into the cache and to the caller
MissInv ==
  \A t \in Threads :
    pc[t] \in {"cache_set", "cache_set_lock", "cache_write"} =>
      /\ ~IsFresh(loc[t].cached) /\ loc[t].allowed /\ loc[t].status_code = 200
      /\ \E raw \in RawResponses :
           loc[t].comps = FirstRetained(raw, ClampLimit(loc[t].requested))

\* C14: with no fresh entry, the limiter allowing and the upstream succeeding,
\* fetch returns a document tagged MISS whose items are the first min(limit, n) of
\* the n retained items in upstream order, never more than the clamped limit, and
\* after the call a cache entry for (query, clamped limit) holds exactly that list.
C14_MissPath == [](MissInv) /\ [][MissStep]_vars

\* C14 witness: two retained items upstream, limit 1: the MISS document and the
\* cache entry hold the first one
C14_Witness ==
  /\ pc["t1"] = "done" /\ result["t1"].cache = "MISS"
  /\ loc["t1"].limit = 1
  /\ result["t1"].items = <<"eur_a">>
  /\ cache[KeyOf("t1")].present /\ cache[KeyOf("t1")].items = <<"eur_a">>

\* the row stored for the thread's key is the one whose payload does not parse; no
\* step writes such a row, so a fetch past its SELECT has read it
ReadCorrupt(t) ==
  /\ pc[t] \notin {"idle", "cache_get", "cache_select"}
  /\ loc[t].limit >= LIMIT_MIN
  /\ cache[KeyOf(t)].present /\ ~cache[KeyOf(t)].valid

\* with a corrupt row _cache_get returns None, and fetch ends as without a row:
\* RateLimited when the limiter denies, UpstreamError when the upstream call fails
CorruptInv ==
  \A t \in Threads :
    ReadCorrupt(t) =>
      /\ pc[t] # "cache_parse" => loc[t].cached = NoCached
      /\ pc[t] = "done" =>
           /\ result[t].kind = "raise"
           /\ IF ~loc[t].allowed
              THEN result[t] = RateLimited(loc[t].lim_dbg)
              ELSE /\ result[t].exc = "HTTPException"
                   /\ result[t].status_code = 502
                   /\ result[t].reason \in {"serpapi_failed", "serpapi_error"}

\* with a corrupt row and the upstream succeeding, the row is overwritten with a
\* payload that parses
CorruptStep ==
  \A t \in Threads :
    (ReadCorrupt(t) /\ pc[t] = "cache_write" /\ pc'[t] = "done") =>
      /\ result'[t] = MissResult(loc[t].comps)
      /\ cache'[KeyOf(t)] = [present |-> TRUE, ts |-> loc[t].ts, valid |-> TRUE,
                             items |-> loc[t].comps]

\* C15: a stored payload that does not parse is read as no entry, without an
\* error, and fetch follows the branches of a fetch without an entry: limiter
\* denied, RateLimited; upstream success, the entry overwritten with a valid
\* payload; upstream failure, UpstreamError.
C15_CorruptAsMiss == [](CorruptInv) /\ [][CorruptStep]_vars

\* the thread is in the upstream HTTP call or in a backoff sleep
OnNetwork(t) == pc[t] \in {"request", "sleep"}

\* the locks are held exactly inside the critical sections: _limiter_lock in the
\* body of _limiter_allow, _db_lock in the SELECT of _cache_get and the INSERT of
\* _cache_set; so a thread on the network, and a thread with its result, holds none
LockInv ==
  \A t \in Threads :
    /\ limiter_lock = t <=> pc[t] = "limiter_body"
    /\ db_lock = t <=> pc[t] \in {"cache_select", "cache_write"}
    /\ (OnNetwork(t) \/ pc[t] = "done") => (limiter_lock # t /\ db_lock # t)

\* a step of one request leaves the position, the locals and the result of every
\* other request as they are
OwnStep ==
  \A t, u \in Threads :
    (t # u /\ <<pc[t], loc[t], result[t]>> # <<pc'[t], loc'[t], result'[t]>>) =>
      <<pc[u], loc[u], result[u]>> = <<pc'[u], loc'[u], result'[u]>>

\* C16: a request in the upstream HTTP call or in a retry backoff holds neither
\* the limiter lock nor the cache lock, and no request, denied or failed or
\* other, changes another request in flight.
C16_NoLockOverNetwork == [](LockInv) /\ [][OwnStep]_vars

\* C16 witness: while one request sleeps in a backoff, another went through the
\* cache lookup and the limiter and has its result; both locks are free
C16_Witness ==
  /\ pc["t1"] = "sleep"
  /\ pc["t2"] = "done" /\ loc["t2"].asked
  /\ loc["t2"].asked_at > loc["t1"].asked_at
  /\ limiter_lock = NoThread /\ db_lock = NoThread

\* a wait given in ticks, rounded up to whole seconds
CeilSec(w) == (w + TicksPerSec - 1) \div TicksPerSec

\* the wait _limiter_allow computes when it is evaluated in the current state
WaitNow == WaitNeeded(now, IF day_key # TodayKey(now) THEN 0 ELSE last_call_ts)

\* a denial with min_interval is given for a positive wait, and its
\* retry_after_seconds is the wait rounded up to whole seconds
HintStep ==
  \A t \in Threads :
    (Decided(t) /\ loc'[t].lim_dbg.reason = "min_interval") =>
      /\ ~loc'[t].allowed
      /\ WaitNow > 0
      /\ loc'[t].lim_dbg.retry_after_seconds = CeilSec(WaitNow)

\* C17: whenever _limiter_allow denies with min_interval, wait_needed is positive
\* and retry_after_seconds is the ceiling of wait_needed, for every value of
\* now - _last_call_ts in [0, MIN_SECONDS_BETWEEN_CALLS).
C17_RetryAfterCeiling == [][HintStep]_vars

\* _last_call_ts and _day_calls as the lazy day reset leaves them at the current
\* clock value
AfterReset ==
  [last |-> IF day_key # TodayKey(now) THEN 0 ELSE last_call_ts,
   calls |-> IF day_key # TodayKey(now) THEN 0 ELSE day_calls]

\* only a _limiter_allow call changes the limiter state: a Denied call leaves
\* _last_call_ts and _day_calls unchanged, an Allowed call sets _last_call_ts to
\* now and adds one to _day_calls, after the day reset when the day has changed
FrameStep ==
  /\ <<last_call_ts, day_key, day_calls>> # <<last_call_ts', day_key', day_calls'>> =>
       \E t \in Threads : Decided(t)
  /\ \A t \in Threads :
       Decided(t) =>
         IF loc'[t].allowed
         THEN /\ last_call_ts' = now
              /\ day_calls' = AfterReset.calls + 1
         ELSE /\ last_call_ts' = last_call_ts
              /\ day_calls' = day_calls
              /\ loc'[t].lim_dbg.reason \in {"daily_cap", "min_interval"}

\* _day_calls is the number of Allowed decisions since the last day reset, and
\* _last_call_ts the time of the last of them
CountInv ==
  /\ day_key = last_grant.day
  /\ day_calls = last_grant.n
  /\ last_call_ts = last_grant.at

\* C18: _last_call_ts and _day_calls are changed only by an Allowed decision
\* (_last_call_ts := now, _day_calls + 1) or by the lazy day reset; a Denied
\* decision leaves them unchanged; _day_calls equals the number of Allowed
\* decisions since the last day reset, whatever became of the upstream calls.
C18_LimiterFrame == [](CountInv) /\ [][FrameStep]_vars

\* C18 witness: on the new day one call was Allowed and its upstream call failed,
\* a later call was denied for min_interval, and the count of the day is 1
C18_Witness ==
  /\ day_key = TodayKey(Morning) /\ day_calls = 1
  /\ last_grant.n = 1 /\ last_call_ts < now
  /\ pc["t1"] = "done" /\ loc["t1"].asked /\ ~loc["t1"].allowed
  /\ loc["t1"].lim_dbg.reason = "min_interval"
  /\ loc["t1"].asked_at > last_call_ts
  /\ \A k \in Keys : ~cache[k].present

\* an Allowed decision comes at least the interval after the one before it
SpacingStep ==
  (last_grant' # last_grant /\ last_grant.n >= 1) =>
    last_grant'.at - last_grant.at >= Sec(MIN_SECONDS_BETWEEN_CALLS)

\* C19: over every sequence of _limiter_allow calls, two consecutive Allowed
\* decisions are at least MIN_SECONDS_BETWEEN_CALLS apart, also when the local
\* calendar day changes between them.
C19_SpacingAcrossDays == [][SpacingStep]_vars

\* thread u has stamped its payload for the cache, and did so before the limiter
\* allowed thread t: the upstream response of u is the earlier one
EarlierResponse(u, t) ==
  /\ pc[u] \in {"cache_set_lock", "cache_write"}
  /\ loc[t].allowed
  /\ Sec(loc[u].ts + 1) <= loc[t].asked_at

\* the row stored under the key of t is the one t wrote
WroteRow(t) ==
  /\ pc[t] = "done" /\ result[t].cache = "MISS"
  /\ cache[KeyOf(t)] = [present |-> TRUE, ts |-> loc[t].ts, valid |-> TRUE,
                        items |-> loc[t].comps]

\* a payload is never overwritten by the payload of an earlier upstream response
LaterWinsStep ==
  \A t, u \in Threads :
    (t # u /\ WroteRow(t) /\ KeyOf(u) = KeyOf(t) /\ EarlierResponse(u, t)) =>
      ~(pc[u] = "cache_write" /\ pc'[u] = "done")

\* the ts of a stored row never decreases
StoredAtStep ==
  \A k \in Keys :
    (cache[k].present /\ cache'[k].present) => cache'[k].ts >= cache[k].ts

\* C20: when two concurrent fetches for one (query, limit) are both Allowed and
\* both upstream calls succeed, the payload left in the cache is that of the later
\* upstream response: a stored payload is never overwritten by the payload of an
\* earlier response, and the ts of an entry never decreases.
C20_LaterResponseWins == [][LaterWinsStep /\ StoredAtStep]_vars

====
